---------------------------- MODULE Spec2Model ----------------------------
(***************************************************************************)
(* Silhouette scoring engine of prototipo-game: the three builds found in  *)
(* the repository,                                                         *)
(*   "core"     src/core/game.py      + src/core/vision.py                 *)
(*   "coreSE"   src/core/game.py      + src/shape-se/core/vision.py        *)
(*   "shape_se" src/shape_se/core/game.py + src/shape_se/core/vision.py    *)
(* Images are one row of Width pixels; a mask (a uint8 array holding 0 or  *)
(* 255) is the set of its non-zero pixel indices.  Percentages are Python  *)
(* floats in the code and exact rationals <<n, d>> here.                   *)
(***************************************************************************)
EXTENDS Integers, Sequences, FiniteSets, TLC

\* ------------------------------------------------------------- bounds
\* pixels in a row of the camera frame and of the shape mask
Width == 60
\* spacing of the end points of the masks the inputs are drawn from
Step == 10
\* the clock is read every ClockStep seconds, up to MaxTime
ClockStep == 5
MaxTime == 10
\* time.time() when the game is constructed
StartTime == 1
\* wins followed in one run
MaxSnapshots == 2

Pixels == 0 .. (Width - 1)

\* ------------------------------------------------- rational arithmetic
\* what a division by zero leaves behind: no rational has denominator 0
ZeroDivision == <<0, 0>>

Abs(x) == IF x < 0 THEN -x ELSE x

RECURSIVE Gcd(_, _)
Gcd(a, b) == IF b = 0 THEN a ELSE Gcd(b, a % b)

Rat(n, d) ==
    LET g == Gcd(Abs(n), Abs(d))
        s == IF d < 0 THEN -1 ELSE 1
    IN  IF g = 0 THEN <<0, 1>> ELSE <<s * (n \div g), s * (d \div g)>>

R(n) == <<n, 1>>

IsRat(x) == x[2] # 0

\* Python's a / b
Div(a, b) ==
    IF a[2] = 0 \/ b[2] = 0 THEN ZeroDivision
    ELSE IF b[1] = 0 THEN ZeroDivision
    ELSE Rat(a[1] * b[2], a[2] * b[1])

Mul(a, b) ==
    IF a[2] = 0 \/ b[2] = 0 THEN ZeroDivision
    ELSE Rat(a[1] * b[1], a[2] * b[2])

Sub(a, b) ==
    IF a[2] = 0 \/ b[2] = 0 THEN ZeroDivision
    ELSE Rat(a[1] * b[2] - b[1] * a[2], a[2] * b[2])

Add(a, b) ==
    IF a[2] = 0 \/ b[2] = 0 THEN ZeroDivision
    ELSE Rat(a[1] * b[2] + b[1] * a[2], a[2] * b[2])

\* a < b, a <= b on rationals (denominators are positive)
Lt(a, b) == a[1] * b[2] < b[1] * a[2]
Le(a, b) == a[1] * b[2] <= b[1] * a[2]

\* Python's min(a, b)
Min(a, b) ==
    IF a[2] = 0 \/ b[2] = 0 THEN ZeroDivision
    ELSE IF Lt(b, a) THEN b ELSE a

\* ------------------------------------------------------- morphology
Dist(p, q) == Abs(p - q)

\* np.ones((k, k)) anchored at its centre reaches (k - 1) / 2 pixels
Radius(k) == (k - 1) \div 2

\* faulty variant of Dilate1: pixels beyond the border count as foreground
Dilate1_bright_border(M, k) ==
    {p \in Pixels : \/ \E q \in M : Dist(p, q) <= Radius(k)
                    \/ p < Radius(k)
                    \/ p > Width - 1 - Radius(k)}

\* one pass of cv2.dilate: pixels beyond the border count as background
Dilate1(M, k) == {p \in Pixels : \E q \in M : Dist(p, q) <= Radius(k)}

\* one pass of cv2.erode: pixels beyond the border count as foreground
Erode1(M, k) == {p \in Pixels : \A q \in Pixels : Dist(p, q) <= Radius(k) => q \in M}

RECURSIVE dilate(_, _, _)
dilate(M, k, iterations) ==
    IF iterations = 0 THEN M ELSE dilate(Dilate1(M, k), k, iterations - 1)

RECURSIVE erode(_, _, _)
erode(M, k, iterations) ==
    IF iterations = 0 THEN M ELSE erode(Erode1(M, k), k, iterations - 1)

\* cv2.morphologyEx(mask, cv2.MORPH_CLOSE, kernel, iterations=n)
morph_close(M, k, iterations) == erode(dilate(M, k, iterations), k, iterations)

\* 255 - mask
Invert(M) == Pixels \ M

\* cv2.countNonZero(mask) > 0.7 * total_pixels
MostlyForeground(M) == 10 * Cardinality(M) > 7 * Width


\* ------------------------------------------------------------ inputs
\* the foreground pixels a..b
Interval(a, b) == {p \in Pixels : a <= p /\ p <= b}

Marks == {m \in 0 .. Width : m % Step = 0 \/ m = Width}

\* the masks the inputs are drawn from: the empty mask and the runs of
\* pixels between two marks
Masks == {{}} \cup {Interval(a, b - 1) : a \in Marks, b \in Marks}

\* the masks that start at the left border
Prefixes == {Interval(0, b - 1) : b \in Marks}

\* A frame is what the external collaborators make of the camera image:
\*   category_mask  the pixels the selfie segmenter labels 1,
\*   motion         the pixels whose blurred grey level differs from the
\*                  background model, as it is when the frame arrives, by
\*                  more than the threshold,
\*   faint          the pixels of motion whose difference no longer exceeds
\*                  the threshold once the frame is blended into the model,
\*   raises         whether the selfie segmenter raises an error on the image
\*                  (it has no category_mask then).
Motions == {{}, Interval(Width - Step, Width - 1)}

\* the frames a single call is tried on
AllFrames ==
    {f \in [category_mask : Masks, motion : Motions, faint : Motions, raises : {FALSE}]
            \cup [category_mask : {{}}, motion : Motions, faint : Motions, raises : {TRUE}] :
        f.faint \subseteq f.motion}

\* the frames the camera delivers to the running game: the segmenter sees a
\* body at the left border, or something moves at the right border (well
\* above the threshold)
Frames ==
    {f \in [category_mask : Prefixes, motion : Motions, faint : {{}}, raises : BOOLEAN] :
        /\ f.motion = {} \/ Cardinality(f.category_mask) <= Step
        /\ f.raises => f.category_mask = {}}

\* shape masks load_images may have built
ShapeMasks == {Interval(0, 4 * Step - 1), Pixels}

\* ------------------------------------------------- VisionProcessor
\* An object is a record; obj.attrs names the attributes assigned so far (the
\* other fields hold a placeholder).  getattr(obj, name, default):
getattr(obj, name, default) == IF name \in obj.attrs THEN obj[name] ELSE default

\* self.name = value, for every field of stored
setattrs(obj, stored) ==
    [f \in DOMAIN obj |->
        IF f \in DOMAIN stored THEN stored[f]
        ELSE IF f = "attrs" THEN obj.attrs \cup DOMAIN stored
        ELSE obj[f]]

VisionIds == {"core", "shape-se", "shape_se"}

\* the attributes a VisionProcessor holds once constructed
VisionInit(vision_id) ==
    [ id |-> vision_id,
      attrs |-> IF vision_id = "shape-se"
                THEN {"background", "has_background", "frame_count"}
                ELSE {},
      excesso_percentual |-> R(0),
      cobertura_interna |-> R(0),
      overlap_area |-> 0,
      total_shape_area |-> 0,
      body_mask_area |-> 0,
      background |-> "None",
      frame_count |-> 0,
      has_background |-> FALSE ]

\* ---------------------------------------------- foreground estimator
CoreSegKernel == 7
CoreSegIterations == 3
DashSegKernel == 9
DashSegIterations == 3
DashSubKernel == 5
DashSubIterations == 2
WarmupFrames == 10

\* src/core/vision.py: refine first, then the inversion heuristic
core_get_segmentation_mask(frame) ==
    LET mask == frame.category_mask
        dilated == dilate(mask, CoreSegKernel, CoreSegIterations)
        closed == morph_close(dilated, CoreSegKernel, CoreSegIterations)
    IN  IF MostlyForeground(closed) THEN Invert(closed) ELSE closed

\* src/shape-se/core/vision.py: the heuristic on the classifier's mask, and
\* np.zeros when the segmenter raises
dash_get_mediapipe_mask(frame) ==
    LET mask == frame.category_mask
    IN  IF frame.raises THEN {}
        ELSE IF MostlyForeground(mask) THEN Invert(mask) ELSE mask

\* the thresholded difference, dilated and closed
dash_refine_thresh(thresh) ==
    morph_close(dilate(thresh, DashSubKernel, DashSubIterations), DashSubKernel, DashSubIterations)

\* computed once for each motion mask
DashThresh == [thresh \in Motions |-> dash_refine_thresh(thresh)] @@ <<>>

\* a warm-up test that lets the tenth call through
warming_up_nine(frame_count) == frame_count < WarmupFrames - 1

\* if self.frame_count < 10
warming_up(frame_count) == frame_count < WarmupFrames

\* a variant that blends the frame into the model before taking the
\* difference
dash_get_background_subtraction_mask_late(self, frame) ==
    IF warming_up(self.frame_count)
    THEN LET write == IF self.background = "None" THEN "seeded" ELSE "averaged"
         IN  [ ret |-> {},
               writes |-> <<write>>,
               stored |-> [frame_count |-> self.frame_count + 1, background |-> write] ]
    ELSE [ ret |-> DashThresh[frame.motion \ frame.faint],
           writes |-> <<"adapted">>,
           stored |-> [has_background |-> TRUE, background |-> "adapted"] ]

\* returns [ret, writes, stored]: writes are the writes to self.background in
\* the order the call makes them, stored the attributes it assigns.  The
\* background model is known by the write that made it: "seeded" by
\* gray.copy(), "averaged" by accumulateWeighted with 0.5, "adapted" by
\* accumulateWeighted with 0.01.
dash_get_background_subtraction_mask(self, frame) ==
    IF warming_up(self.frame_count)
    THEN LET write == IF self.background = "None" THEN "seeded" ELSE "averaged"
         IN  [ ret |-> {},
               writes |-> <<write>>,
               stored |-> [frame_count |-> self.frame_count + 1, background |-> write] ]
    ELSE [ ret |-> DashThresh[frame.motion],
           writes |-> <<"adapted">>,
           stored |-> [has_background |-> TRUE, background |-> "adapted"] ]

\* the two sub-masks joined with bitwise_and
dash_combine_and(mask1, mask2) ==
    LET combined_mask == mask1 \cap mask2
        dilated == dilate(combined_mask, DashSegKernel, DashSegIterations)
    IN  morph_close(dilated, DashSegKernel, DashSegIterations)

\* the union of the two sub-masks, refined
dash_combine(mask1, mask2) ==
    LET combined_mask == mask1 \cup mask2
        dilated == dilate(combined_mask, DashSegKernel, DashSegIterations)
    IN  morph_close(dilated, DashSegKernel, DashSegIterations)

dash_get_segmentation_mask(self, frame) ==
    [ ret |-> dash_combine(dash_get_mediapipe_mask(frame),
                           dash_get_background_subtraction_mask(self, frame).ret),
      writes |-> dash_get_background_subtraction_mask(self, frame).writes,
      stored |-> dash_get_background_subtraction_mask(self, frame).stored ]

\* src/shape_se/core/vision.py: the classifier's mask as it is
under_get_segmentation_mask(frame) == frame.category_mask

\* The masks are computed once for each frame of AllFrames (the result of
\* the shape-se build depends on the state only through the warm-up test).
CoreSegmentation == [frame \in AllFrames |-> core_get_segmentation_mask(frame)] @@ <<>>

DashSegmentation ==
    [warming \in BOOLEAN, frame \in AllFrames |->
        dash_get_segmentation_mask(
            [frame_count |-> IF warming THEN 0 ELSE WarmupFrames, background |-> "None"],
            frame).ret] @@ <<>>

\* returns [ret, self, writes, raised]: writes are the writes to
\* self.background, raised tells that the error of the segmenter leaves the
\* function uncaught (there is no ret then)
get_segmentation_mask(self, frame) ==
    CASE self.id = "core" ->
            [ ret |-> CoreSegmentation[frame], self |-> self, writes |-> <<>>,
              raised |-> frame.raises ]
      [] self.id = "shape-se" ->
            [ ret |-> DashSegmentation[warming_up(self.frame_count), frame],
              self |-> setattrs(self, dash_get_background_subtraction_mask(self, frame).stored),
              writes |-> dash_get_background_subtraction_mask(self, frame).writes,
              raised |-> FALSE ]
      [] self.id = "shape_se" ->
            [ ret |-> under_get_segmentation_mask(frame), self |-> self, writes |-> <<>>,
              raised |-> frame.raises ]

\* cv2.resize(body_mask, shape_mask.shape): the frames of the model have the
\* size of the shape mask, and a resize to the same size copies the mask
resize(body_mask) == body_mask \cap Pixels

\* ---------------------------------------------------- overlap scorer
\* kernel sizes and iteration counts of the scorer's refinement
CoreScoreKernel == 11
CoreScoreDilations == 5
DashScoreKernel == 13
DashScoreDilations == 6
UnderScoreKernel == 5
UnderScoreDilations == 2
ScoreErosions == 1

\* boost factors 1.25, 1.5 and 1.1
\* the boost of src/shape-se in src/core
CoreBoost_as_dash == Rat(3, 2)

CoreBoost == Rat(5, 4)
DashBoost == Rat(3, 2)
UnderBoost == Rat(11, 10)

\* a scorer that runs its dilate and erode a second time on the result
core_refine_twice(body_mask) ==
    erode(dilate(erode(dilate(body_mask, CoreScoreKernel, CoreScoreDilations),
                       CoreScoreKernel, ScoreErosions),
                 CoreScoreKernel, CoreScoreDilations),
          CoreScoreKernel, ScoreErosions)

\* the body mask as the scorer counts it: dilate, then erode once
core_refine(body_mask) ==
    erode(dilate(body_mask, CoreScoreKernel, CoreScoreDilations), CoreScoreKernel, ScoreErosions)

\* faulty variant of dash_refine: the iteration counts are swapped
dash_refine_swapped(body_mask) ==
    erode(dilate(body_mask, DashScoreKernel, ScoreErosions), DashScoreKernel, DashScoreDilations)

\* a scorer that inverts a refined mask covering most of the image
dash_refine_inverting(body_mask) ==
    LET body_mask_bin ==
            erode(dilate(body_mask, DashScoreKernel, DashScoreDilations),
                  DashScoreKernel, ScoreErosions)
    IN  IF MostlyForeground(body_mask_bin) THEN Invert(body_mask_bin) ELSE body_mask_bin

dash_refine(body_mask) ==
    erode(dilate(body_mask, DashScoreKernel, DashScoreDilations), DashScoreKernel, ScoreErosions)

\* a scorer of src/shape_se that erodes more often than it dilates
under_refine_swapped(body_mask) ==
    erode(dilate(body_mask, UnderScoreKernel, ScoreErosions), UnderScoreKernel, UnderScoreDilations)

under_refine(body_mask) ==
    erode(dilate(body_mask, UnderScoreKernel, UnderScoreDilations), UnderScoreKernel, ScoreErosions)

\* every mask that reaches a scorer, and its refinement computed once
BodyMasks ==
    Masks \cup {CoreSegmentation[f] : f \in AllFrames}
          \cup {DashSegmentation[w, f] : w \in BOOLEAN, f \in AllFrames}

CoreRefined == [body_mask \in BodyMasks |-> core_refine(body_mask)] @@ <<>>
DashRefined == [body_mask \in BodyMasks |-> dash_refine(body_mask)] @@ <<>>
UnderRefined == [body_mask \in BodyMasks |-> under_refine(body_mask)] @@ <<>>

\* faulty variant of min_100: no clamp
min_100_unclamped(x) == x

\* min(100, x)
min_100(x) == Min(R(100), x)

\* faulty variant of if_positive: the guard is left out
if_positive_unguarded(total_shape, value) == value

\* value if total_shape > 0 else 0
if_positive(total_shape, value) == IF total_shape > 0 THEN value ELSE R(0)

\* an excess that counts the whole body
core_excesso_whole_body(body_mask_bin, shape_mask) == Cardinality(body_mask_bin)

\* np.sum(np.logical_and(body_mask_bin, np.logical_not(shape_mask_bin)))
core_excesso(body_mask_bin, shape_mask) == Cardinality(body_mask_bin \ shape_mask)

\* src/core/vision.py.  Returns [ret, stored, shape_mask, locals, divisions]:
\* stored are the attributes the call assigns, shape_mask the array passed in
\* as the call leaves it (shape_mask_bin is a new array), locals its pixel
\* counts, divisions the quotients it evaluates.
core_calculate_fill_percentage(body_mask, shape_mask) ==
    LET body_mask_bin == CoreRefined[body_mask]
        overlap == Cardinality(shape_mask \cap body_mask_bin)
        total_shape == Cardinality(shape_mask)
        excesso == core_excesso(body_mask_bin, shape_mask)
        ratio_excesso == if_positive(total_shape, Div(R(excesso), R(total_shape)))
        excesso_percentual ==
            if_positive(total_shape, min_100(Mul(ratio_excesso, R(100))))
        ratio_print == if_positive(total_shape, Div(R(overlap), R(total_shape)))
        ratio_fill == IF total_shape = 0 THEN R(0) ELSE Div(R(overlap), R(total_shape))
        percentage == Mul(ratio_fill, R(100))
    IN  [ ret |-> IF total_shape = 0 THEN R(0) ELSE min_100(Mul(percentage, CoreBoost)),
          stored |-> [ excesso_percentual |-> excesso_percentual,
                       overlap_area |-> overlap,
                       total_shape_area |-> total_shape,
                       body_mask_area |-> Cardinality(body_mask_bin) ],
          shape_mask |-> shape_mask,
          locals |-> [ overlap |-> overlap, total_shape |-> total_shape,
                       body_mask_bin |-> body_mask_bin ],
          divisions |-> {ratio_excesso, ratio_print, ratio_fill} ]

\* src/shape-se/core/vision.py
dash_calculate_fill_percentage(body_mask, shape_mask) ==
    LET body_mask_bin == DashRefined[body_mask]
        overlap == Cardinality(shape_mask \cap body_mask_bin)
        total_shape == Cardinality(shape_mask)
        body_area == Cardinality(body_mask_bin)
        outside_shape == body_area - overlap
        ratio_excesso == if_positive(total_shape, Div(R(outside_shape), R(total_shape)))
        excesso_percentual ==
            min_100(if_positive(total_shape, Mul(ratio_excesso, R(100))))
        ratio_cobertura == if_positive(total_shape, Div(R(overlap), R(total_shape)))
        cobertura_interna == if_positive(total_shape, Mul(ratio_cobertura, R(100)))
        percentage == Mul(cobertura_interna, Sub(R(1), Div(excesso_percentual, R(400))))
    IN  [ ret |-> IF total_shape = 0 THEN R(0) ELSE min_100(Mul(percentage, DashBoost)),
          stored |-> [ excesso_percentual |-> excesso_percentual,
                       cobertura_interna |-> cobertura_interna,
                       overlap_area |-> overlap,
                       total_shape_area |-> total_shape,
                       body_mask_area |-> body_area ],
          shape_mask |-> shape_mask,
          locals |-> [ overlap |-> overlap, total_shape |-> total_shape,
                       body_mask_bin |-> body_mask_bin ],
          divisions |-> {ratio_excesso, ratio_cobertura} ]

\* src/shape_se/core/vision.py: nothing is stored
under_calculate_fill_percentage(body_mask, shape_mask) ==
    LET body_mask_bin == UnderRefined[body_mask]
        overlap == Cardinality(shape_mask \cap body_mask_bin)
        total_shape == Cardinality(shape_mask)
        ratio_fill == IF total_shape = 0 THEN R(0) ELSE Div(R(overlap), R(total_shape))
        percentage == Mul(ratio_fill, R(100))
    IN  [ ret |-> IF total_shape = 0 THEN R(0) ELSE min_100(Mul(percentage, UnderBoost)),
          stored |-> <<>>,
          shape_mask |-> shape_mask,
          locals |-> [ overlap |-> overlap, total_shape |-> total_shape,
                       body_mask_bin |-> body_mask_bin ],
          divisions |-> {ratio_fill} ]

\* the scorer of a build
score_of(vision_id, body_mask, mask) ==
    CASE vision_id = "core" -> core_calculate_fill_percentage(body_mask, mask)
      [] vision_id = "shape-se" -> dash_calculate_fill_percentage(body_mask, mask)
      [] vision_id = "shape_se" -> under_calculate_fill_percentage(body_mask, mask)

\* a scorer that clips the shape mask to the body in place
store_score_clipping(self, score) ==
    [ ret |-> score.ret,
      self |-> setattrs(self, score.stored),
      mask |-> score.shape_mask \cap score.locals.body_mask_bin,
      locals |-> score.locals,
      divisions |-> score.divisions ]

\* a scorer that keeps the values of its first call
store_score_once(self, score) ==
    [ ret |-> score.ret,
      self |-> IF "overlap_area" \in self.attrs THEN self ELSE setattrs(self, score.stored),
      mask |-> score.shape_mask,
      locals |-> score.locals,
      divisions |-> score.divisions ]

\* the call on a VisionProcessor: returns [ret, self, mask, locals, divisions]
store_score(self, score) ==
    [ ret |-> score.ret,
      self |-> setattrs(self, score.stored),
      mask |-> score.shape_mask,
      locals |-> score.locals,
      divisions |-> score.divisions ]

calculate_fill_percentage(self, body_mask, mask) ==
    store_score(self, score_of(self.id, body_mask, mask))

\* ------------------------------------------------------------- Game
Threshold == 95
ExcessCeiling == 50
CoreCooldown == 10
UnderCooldown == 3

GameInit(game_id) ==
    [ id |-> game_id,
      attrs |-> IF game_id = "core" THEN {"excesso_percentual"} ELSE {},
      threshold |-> Threshold,
      running |-> TRUE,
      victory |-> FALSE,
      victory_time |-> 0,
      current_percentage |-> R(0),
      in_menu |-> TRUE,
      excesso_percentual |-> R(0),
      cobertura_interna |-> R(0) ]

\* faulty variant of core_wins: the test of self.victory is left out
core_wins_while_won(self, cobertura, excesso) ==
    /\ Le(R(self.threshold), cobertura)
    /\ Lt(excesso, R(ExcessCeiling))

\* faulty variant of core_wins: the excess test is left out
core_wins_any_excess(self, cobertura, excesso) ==
    /\ Le(R(self.threshold), cobertura)
    /\ ~self.victory

\* the win test of src/core/game.py
core_wins(self, cobertura, excesso) ==
    /\ Le(R(self.threshold), cobertura)
    /\ Lt(excesso, R(ExcessCeiling))
    /\ ~self.victory

\* the win test of src/shape_se/core/game.py
under_wins(self, percentage) == Le(R(self.threshold), percentage) /\ ~self.victory

\* faulty variant of expired: >= in place of >
expired_at_cooldown(victory_time, t_end, seconds) == t_end - victory_time >= seconds

\* faulty variant of expired: the operands of the subtraction are swapped
expired_backwards(victory_time, t_end, seconds) == victory_time - t_end > seconds

\* time.time() - self.victory_time > cooldown, read at t_end
expired(victory_time, t_end, seconds) == t_end - victory_time > seconds

\* the rest of process_frame once the frame is scored: score is what
\* calculate_fill_percentage returned, t_win the clock read when the win is
\* recorded, t_end the clock read by the cooldown test.
\* Returns [self, vision, score, saved, body_mask, raised]; saved counts the
\* save_snapshot calls, body_mask is the resized mask that was scored.
core_debounce(self, body_mask, score, t_win, t_end) ==
    LET excesso == getattr(score.self, "excesso_percentual", R(0))
        cobertura == getattr(score.self, "cobertura_interna", R(0))
        wins == core_wins(self, cobertura, excesso)
        victory1 == IF wins THEN TRUE ELSE self.victory
        victory_time1 == IF wins THEN t_win ELSE self.victory_time
        expires == victory1 /\ expired(victory_time1, t_end, CoreCooldown)
    IN  [ self |-> [self EXCEPT !.current_percentage = score.ret,
                                !.excesso_percentual = excesso,
                                !.cobertura_interna = cobertura,
                                !.attrs = @ \cup {"cobertura_interna"},
                                !.victory = IF expires THEN FALSE ELSE victory1,
                                !.victory_time = victory_time1,
                                !.in_menu = IF expires THEN TRUE ELSE @],
          vision |-> score.self,
          score |-> score,
          saved |-> IF wins THEN 1 ELSE 0,
          body_mask |-> body_mask,
          raised |-> FALSE ]

under_debounce(self, body_mask, score, t_win, t_end) ==
    LET percentage == score.ret
        wins == under_wins(self, percentage)
        victory1 == IF wins THEN TRUE ELSE self.victory
        victory_time1 == IF wins THEN t_win ELSE self.victory_time
        expires == victory1 /\ expired(victory_time1, t_end, UnderCooldown)
    IN  [ self |-> [self EXCEPT !.current_percentage = percentage,
                                !.victory = IF expires THEN FALSE ELSE victory1,
                                !.victory_time = victory_time1],
          vision |-> score.self,
          score |-> score,
          saved |-> IF wins THEN 1 ELSE 0,
          body_mask |-> body_mask,
          raised |-> FALSE ]

\* process_frame of both games: segment, resize, score, debounce
scored(seg, mask) == calculate_fill_percentage(seg.self, resize(seg.ret), mask)

segmented(self, seg, mask, t_win, t_end) ==
    IF self.id = "core"
    THEN core_debounce(self, resize(seg.ret), scored(seg, mask), t_win, t_end)
    ELSE under_debounce(self, resize(seg.ret), scored(seg, mask), t_win, t_end)

\* an error raised in get_segmentation_mask leaves process_frame at once
uncaught(self, vision_self) ==
    [self |-> self, vision |-> vision_self, saved |-> 0, raised |-> TRUE]

process_frame(self, vision_self, mask, frame, t_win, t_end) ==
    IF get_segmentation_mask(vision_self, frame).raised
    THEN uncaught(self, vision_self)
    ELSE segmented(self, get_segmentation_mask(vision_self, frame), mask, t_win, t_end)

\* a SPACE that goes back to the menu with the win still standing
core_handle_event_to_menu(self, key) ==
    CASE key = "ESCAPE" -> [self EXCEPT !.running = FALSE]
      [] key = "SPACE" ->
            IF self.in_menu THEN [self EXCEPT !.in_menu = FALSE]
            ELSE IF self.victory THEN [self EXCEPT !.in_menu = TRUE]
            ELSE self
      [] OTHER -> self

\* a restart on SPACE that forgets the time of the win as well
core_handle_event_forgetful(self, key) ==
    CASE key = "ESCAPE" -> [self EXCEPT !.running = FALSE]
      [] key = "SPACE" ->
            IF self.in_menu THEN [self EXCEPT !.in_menu = FALSE]
            ELSE IF self.victory
                 THEN [self EXCEPT !.victory = FALSE, !.victory_time = 0, !.in_menu = TRUE]
            ELSE self
      [] OTHER -> self

\* one event of the queue handle_events drains
core_handle_event(self, key) ==
    CASE key = "ESCAPE" -> [self EXCEPT !.running = FALSE]
      [] key = "SPACE" ->
            IF self.in_menu THEN [self EXCEPT !.in_menu = FALSE]
            ELSE IF self.victory THEN [self EXCEPT !.victory = FALSE, !.in_menu = TRUE]
            ELSE self
      [] OTHER -> self

under_handle_event(self, key) ==
    CASE key = "ESCAPE" -> [self EXCEPT !.running = FALSE]
      [] key = "SPACE" /\ self.in_menu -> [self EXCEPT !.in_menu = FALSE]
      [] OTHER -> self

\* ------------------------------------------- the timer of src/core
\* self.start_time is None, or <<t>> for the time t
None == <<>>

\* the timer variables of __init__, kept in the Game record by the
\* specification of the timer
TimerFields ==
    [ start_time |-> None, elapsed_time |-> 0, timer_running |-> FALSE,
      victory_score |-> 0 ]

\* `if self.start_time`: neither None nor 0
truthy(start_time) == start_time # None /\ start_time[1] # 0

\* handle_events of src/core/game.py with its timer: SPACE, T and R at time t
core_handle_timer_event(self, key, t) ==
    CASE key = "SPACE" ->
            IF self.in_menu
            THEN [self EXCEPT !.in_menu = FALSE, !.start_time = <<t>>,
                              !.elapsed_time = 0, !.timer_running = TRUE]
            ELSE IF self.victory THEN [self EXCEPT !.victory = FALSE, !.in_menu = TRUE]
            ELSE self
      [] key = "t" /\ ~self.in_menu ->
            IF self.timer_running
            THEN [self EXCEPT !.elapsed_time = @ + (t - self.start_time[1]),
                              !.timer_running = FALSE]
            ELSE [self EXCEPT !.start_time = <<t>>, !.timer_running = TRUE]
      [] key = "r" /\ ~self.in_menu ->
            [self EXCEPT !.start_time = <<t>>, !.elapsed_time = 0, !.timer_running = TRUE]
      [] OTHER -> self

\* tempo_segundos of process_frame, read at time t
tempo_segundos(self, t) ==
    IF truthy(self.start_time) THEN self.elapsed_time + (t - self.start_time[1]) ELSE 0

\* tempo_total of render_victory_screen (nothing is shown without start_time)
tempo_total(self) ==
    IF truthy(self.start_time)
    THEN self.elapsed_time + (self.victory_time - self.start_time[1])
    ELSE 0

\* a score without the max(0, ...)
max_0_missing(x) == x

\* max(0, x)
max_0(x) == IF Lt(R(0), x) THEN x ELSE R(0)

\* Python's int(x): truncation towards zero
int(x) == IF x[1] < 0 THEN -((-x[1]) \div x[2]) ELSE x[1] \div x[2]

\* int(10000 * (cobertura_interna/100) * max(0, 1 - tempo_segundos/60))
victory_score(cobertura_interna, tempo) ==
    int(Mul(Mul(R(10000), Div(cobertura_interna, R(100))),
            max_0(Sub(R(1), Div(R(tempo), R(60))))))

\* process_frame of src/core/game.py with the score of the win: result is
\* what process_frame gives without it
with_victory_score(self, result, t) ==
    IF result.raised \/ result.saved = 0 THEN result
    ELSE [result EXCEPT !.self.victory_score =
              victory_score(result.self.cobertura_interna, tempo_segundos(self, t))]

\* the cooldown the process_frame of self waits for
cooldown(self) == IF self.id = "core" THEN CoreCooldown ELSE UnderCooldown

handle_event(self, key) ==
    IF self.id = "core" THEN core_handle_event(self, key) ELSE under_handle_event(self, key)

\* ------------------------------------------------------------ state
VARIABLES
    game,        \* the Game object
    vision,      \* its VisionProcessor
    shape_mask,  \* Game.shape_mask, built by load_images
    now,         \* time.time(), in whole seconds
    snapshots,   \* number of save_snapshot calls so far
    step         \* the operation that led to this state, with its inputs and results

vars == <<game, vision, shape_mask, now, snapshots, step>>

\* the three builds: which Game runs on which VisionProcessor
Builds == { [game |-> "core", vision |-> "core"],
            [game |-> "core", vision |-> "shape-se"],
            [game |-> "shape_se", vision |-> "shape_se"] }

NoFrame == [category_mask |-> {}, motion |-> {}, faint |-> {}, raises |-> FALSE]

\* step.op names the operation; the other fields are its inputs and results,
\* and hold these placeholders when the operation has none
NoStep == [ op |-> "init", key |-> "", frame |-> NoFrame, body_mask |-> {},
            shape_mask |-> {}, mask |-> {}, mask2 |-> {}, calls |-> 0, writes |-> <<>>,
            tempo |-> 0, counted |-> 0, screen |-> {}, camera |-> FALSE,
            ret |-> R(0),
            overlap |-> 0, total_shape |-> 0, body_mask_bin |-> {}, divisions |-> {},
            was_victory |-> FALSE, saved |-> 0 ]

\* the while loop of run is still turning: self.running holds and no error
\* has left the loop
Running == game.running /\ step.op # "uncaught"

Init ==
    /\ \E b \in Builds : game = GameInit(b.game) /\ vision = VisionInit(b.vision)
    /\ shape_mask \in ShapeMasks
    /\ now = StartTime
    /\ snapshots = 0
    /\ step = NoStep

\* the clock advances between two operations; past MaxTime it advances only
\* until the cooldown of a victory has elapsed
Tick ==
    /\ Running
    /\ \/ now + ClockStep <= StartTime + MaxTime
       \/ game.victory /\ now - game.victory_time <= cooldown(game)
    /\ now' = now + ClockStep
    /\ step' = [NoStep EXCEPT !.op = "tick"]
    /\ UNCHANGED <<game, vision, shape_mask, snapshots>>

Keys == {"ESCAPE", "SPACE", "m"}

\* run: handle_events takes one event from the queue
HandleEvent(key) ==
    /\ Running
    /\ game' = handle_event(game, key)
    /\ step' = [NoStep EXCEPT !.op = "handle_events", !.key = key]
    /\ UNCHANGED <<vision, shape_mask, now, snapshots>>

\* run: the menu branch of the loop
RenderMenu ==
    /\ Running
    /\ game.in_menu
    /\ step' = [NoStep EXCEPT !.op = "render_menu"]
    /\ UNCHANGED <<game, vision, shape_mask, now, snapshots>>

\* a loop that hands the background model a blank image when the camera
\* gives none
SkipFrame_blank ==
    /\ Running
    /\ ~game.in_menu
    /\ step' = [NoStep EXCEPT !.op = "no_frame"]
    /\ vision' = setattrs(vision, dash_get_background_subtraction_mask(vision, NoFrame).stored)
    /\ UNCHANGED <<game, shape_mask, now, snapshots>>

\* run: get_frame returned None and the loop continues
SkipFrame ==
    /\ Running
    /\ ~game.in_menu
    /\ step' = [NoStep EXCEPT !.op = "no_frame"]
    /\ UNCHANGED <<game, vision, shape_mask, now, snapshots>>

\* run: get_frame returned a frame; process_frame, then render
ProcessFrame(frame) ==
    /\ Running
    /\ ~game.in_menu
    /\ \E r \in {process_frame(game, vision, shape_mask, frame, now, now)} :
           /\ snapshots + r.saved <= MaxSnapshots
           /\ game' = r.self
           /\ vision' = r.vision
           /\ snapshots' = snapshots + r.saved
           /\ shape_mask' = IF r.raised THEN shape_mask ELSE r.score.mask
           /\ step' = IF r.raised
                      THEN [NoStep EXCEPT !.op = "uncaught", !.frame = frame,
                                          !.was_victory = game.victory]
                      ELSE
                      [NoStep EXCEPT !.op = "process_frame",
                                     !.frame = frame,
                                     !.body_mask = r.body_mask,
                                     !.shape_mask = shape_mask,
                                     !.ret = r.score.ret,
                                     !.overlap = r.score.locals.overlap,
                                     !.total_shape = r.score.locals.total_shape,
                                     !.body_mask_bin = r.score.locals.body_mask_bin,
                                     !.divisions = r.score.divisions,
                                     !.was_victory = game.victory,
                                     !.saved = r.saved]
    /\ UNCHANGED now

Next ==
    \/ Tick
    \/ \E key \in Keys : HandleEvent(key)
    \/ RenderMenu
    \/ SkipFrame
    \/ \E frame \in Frames : ProcessFrame(frame)

Spec == Init /\ [][Next]_vars

\* The loop of run keeps turning: the clock advances, and the camera delivers
\* a frame whenever the loop keeps asking for one.  FramesDelivered is weak
\* fairness of \E frame \in Frames : ProcessFrame(frame), written with the
\* condition that enables it (the loop runs outside the menu) and with the
\* mark the action leaves in step.
FramesDelivered ==
    <>[](Running /\ ~game.in_menu) => []<><<step'.op = "process_frame">>_vars

LiveSpec == Spec /\ WF_vars(Tick) /\ FramesDelivered

\* ---------------------------------------------- single calls
\* A freshly constructed VisionProcessor of any build receives one call,
\* with arguments drawn from Masks and AllFrames.
CallInit ==
    /\ game = GameInit("core")
    /\ \E vision_id \in VisionIds : vision = VisionInit(vision_id)
    /\ shape_mask \in Masks
    /\ now = StartTime
    /\ snapshots = 0
    /\ \E body_mask \in Masks, frame \in AllFrames :
          step = [NoStep EXCEPT !.op = "call", !.body_mask = body_mask, !.frame = frame,
                                !.shape_mask = shape_mask]

\* vision.calculate_fill_percentage(step.body_mask, shape_mask)
CallCalculateFillPercentage ==
    /\ step.op = "call"
    /\ \E r \in {calculate_fill_percentage(vision, step.body_mask, shape_mask)} :
           /\ vision' = r.self
           /\ shape_mask' = r.mask
           /\ step' = [step EXCEPT !.op = "calculate_fill_percentage",
                                   !.ret = r.ret,
                                   !.overlap = r.locals.overlap,
                                   !.total_shape = r.locals.total_shape,
                                   !.body_mask_bin = r.locals.body_mask_bin,
                                   !.divisions = r.divisions]
    /\ UNCHANGED <<game, now, snapshots>>

\* the learned-segmenter part of get_segmentation_mask: the whole function in
\* src/core and src/shape_se, get_mediapipe_mask in src/shape-se
learned_mask(vision_id, frame) ==
    CASE vision_id = "core" -> CoreSegmentation[frame]
      [] vision_id = "shape-se" -> dash_get_mediapipe_mask(frame)
      [] vision_id = "shape_se" -> under_get_segmentation_mask(frame)

\* vision.get_segmentation_mask(step.frame)
CallGetSegmentationMask ==
    /\ step.op = "call"
    /\ \E r \in {get_segmentation_mask(vision, step.frame)} :
           /\ vision' = r.self
           /\ step' = IF r.raised
                      THEN [step EXCEPT !.op = "uncaught"]
                      ELSE [step EXCEPT !.op = "get_segmentation_mask",
                                        !.mask = learned_mask(vision.id, step.frame),
                                        !.body_mask = r.ret]
    /\ UNCHANGED <<game, shape_mask, now, snapshots>>

CallNext == CallCalculateFillPercentage \/ CallGetSegmentationMask

CallSpec == CallInit /\ [][CallNext]_vars

\* ---------------------------------------------- call histories
\* bound on the calls one VisionProcessor receives
MaxCalls == 12

\* A freshly constructed VisionProcessor of src/shape-se receives up to
\* MaxCalls calls, in any order, with frames drawn from AllFrames.  step.calls
\* counts the calls of get_background_subtraction_mask, direct or made by
\* get_segmentation_mask; step.mask and step.mask2 are the two sub-masks.
HistoryInit ==
    /\ game = GameInit("core")
    /\ vision = VisionInit("shape-se")
    /\ shape_mask = {}
    /\ now = StartTime
    /\ snapshots = 0
    /\ step = NoStep

\* vision.get_background_subtraction_mask(frame)
HistoryGetBackgroundSubtractionMask(frame) ==
    /\ step.calls < MaxCalls
    /\ \E r \in {dash_get_background_subtraction_mask(vision, frame)} :
           /\ vision' = setattrs(vision, r.stored)
           /\ step' = [NoStep EXCEPT !.op = "get_background_subtraction_mask",
                                     !.frame = frame,
                                     !.mask2 = r.ret,
                                     !.writes = r.writes,
                                     !.calls = step.calls + 1]
    /\ UNCHANGED <<game, shape_mask, now, snapshots>>

\* vision.get_segmentation_mask(frame)
HistoryGetSegmentationMask(frame) ==
    /\ step.calls < MaxCalls
    /\ \E r \in {get_segmentation_mask(vision, frame)} :
           /\ vision' = r.self
           /\ step' = [NoStep EXCEPT !.op = "get_segmentation_mask",
                                     !.frame = frame,
                                     !.mask = dash_get_mediapipe_mask(frame),
                                     !.mask2 = dash_get_background_subtraction_mask(vision, frame).ret,
                                     !.writes = r.writes,
                                     !.body_mask = r.ret,
                                     !.calls = step.calls + 1]
    /\ UNCHANGED <<game, shape_mask, now, snapshots>>

HistoryNext ==
    \E frame \in AllFrames :
        \/ HistoryGetBackgroundSubtractionMask(frame)
        \/ HistoryGetSegmentationMask(frame)

HistorySpec == HistoryInit /\ [][HistoryNext]_vars

\* ------------------------------------------------------- the timer
\* the clock of a timed round advances by TimerStep up to TimerMaxTime
TimerStep == 20
TimerMaxTime == 60

TimerKeys == {"SPACE", "t", "r"}

\* the frames of a timed round: a body that fills the shape, and nobody
TimerFrames ==
    {f \in Frames : f.category_mask \in {{}, Interval(0, 4 * Step - 1)}
                       /\ f.motion = {} /\ ~f.raises}

\* The Game of src/core with its timer, on the VisionProcessor of
\* src/shape-se.  step.counted is the time the timer has been running since
\* it was last started or reset, step.tempo the tempo_segundos of the last
\* win.
TimerInit ==
    /\ game = GameInit("core") @@ TimerFields
    /\ vision = VisionInit("shape-se")
    /\ shape_mask = Pixels
    /\ now = StartTime
    /\ snapshots = 0
    /\ step = NoStep

TimerTick ==
    /\ now + TimerStep <= StartTime + TimerMaxTime
    /\ now' = now + TimerStep
    /\ step' = [NoStep EXCEPT !.op = "tick",
                              !.tempo = step.tempo,
                              !.counted = step.counted
                                          + (IF game.timer_running THEN TimerStep ELSE 0)]
    /\ UNCHANGED <<game, vision, shape_mask, snapshots>>

TimerHandleEvent(key) ==
    /\ game' = core_handle_timer_event(game, key, now)
    /\ step' = [NoStep EXCEPT !.op = "handle_events", !.key = key,
                              !.tempo = step.tempo,
                              !.counted = IF \/ key = "SPACE" /\ game.in_menu
                                             \/ key = "r" /\ ~game.in_menu
                                          THEN 0 ELSE step.counted]
    /\ UNCHANGED <<vision, shape_mask, now, snapshots>>

TimerProcessFrame(frame) ==
    /\ ~game.in_menu
    /\ \E r \in {with_victory_score(game, process_frame(game, vision, shape_mask, frame, now, now),
                                     now)} :
           /\ snapshots + r.saved <= MaxSnapshots
           /\ game' = r.self
           /\ vision' = r.vision
           /\ snapshots' = snapshots + r.saved
           /\ step' = [NoStep EXCEPT !.op = "process_frame",
                                     !.frame = frame,
                                     !.was_victory = game.victory,
                                     !.saved = r.saved,
                                     !.tempo = IF r.saved = 1 THEN tempo_segundos(game, now)
                                               ELSE step.tempo,
                                     !.counted = step.counted]
    /\ UNCHANGED <<shape_mask, now>>

TimerNext ==
    \/ TimerTick
    \/ \E key \in TimerKeys : TimerHandleEvent(key)
    \/ \E frame \in TimerFrames : TimerProcessFrame(frame)

TimerSpec == TimerInit /\ [][TimerNext]_vars

\* ------------------------------------------------------- novo-game
\* src/novo-game: the countdown game of ShapeSEModel, ShapeSEController and
\* the loop of shape_se_runner.main.
TOTAL_TIME == 5 * 60
WIN_THRESHOLD == R(95)

\* the clock of the countdown advances by NovoStep up to NovoMaxTime
NovoStep == 100
NovoMaxTime == 400

\* ShapeSEModel.__init__, with the running flag of its ShapeSEController
NovoInitModel ==
    [ id |-> "novo-game",
      running |-> TRUE,
      game_started |-> FALSE,
      game_over |-> FALSE,
      start_time |-> None,
      remaining_time |-> TOTAL_TIME,
      current_score |-> R(0),
      captured_image |-> FALSE ]

model_start_game(self, t) ==
    [self EXCEPT !.game_started = TRUE, !.game_over = FALSE, !.start_time = <<t>>,
                 !.remaining_time = TOTAL_TIME, !.current_score = R(0),
                 !.captured_image = FALSE]

model_end_game(self) == [self EXCEPT !.game_over = TRUE, !.game_started = FALSE]

\* ShapeSEModel.update at time t: returns [self, ret]
model_update(self, t) ==
    IF ~self.game_started THEN [self |-> self, ret |-> TRUE]
    ELSE LET elapsed_time == t - self.start_time[1]
             remaining_time == IF TOTAL_TIME - int(R(elapsed_time)) > 0
                               THEN TOTAL_TIME - int(R(elapsed_time)) ELSE 0
             self1 == [self EXCEPT !.remaining_time = remaining_time]
         IN  IF remaining_time <= 0
             THEN [self |-> model_end_game(self1), ret |-> FALSE]
             ELSE [self |-> self1, ret |-> TRUE]

\* the example score of calculate_score
model_calculate_score == R(96)

model_is_winner(self) == Le(WIN_THRESHOLD, self.current_score)

\* ShapeSEController.handle_events at time t with one event in the queue
\* ("" for none): returns [self, ret]
controller_handle_events(self, key, t) ==
    CASE key \in {"QUIT", "q"} -> [self |-> [self EXCEPT !.running = FALSE], ret |-> FALSE]
      [] key = "SPACE" /\ ~self.game_started ->
            [self |-> model_start_game(self, t), ret |-> TRUE]
      [] OTHER -> [self |-> self, ret |-> TRUE]

\* ShapeSEController.update at time t; camera tells whether camera.read gives
\* a frame.  Returns [self, ret].
controller_update(self, key, camera, t) ==
    IF ~self.running THEN [self |-> self, ret |-> FALSE]
    ELSE LET handled == controller_handle_events(self, key, t)
             self1 == handled.self
         IN  IF ~handled.ret THEN [self |-> self1, ret |-> FALSE]
             ELSE IF ~camera THEN [self |-> self1, ret |-> FALSE]
             ELSE IF self1.game_started /\ ~self1.game_over
             THEN LET self2 == [self1 EXCEPT !.current_score = model_calculate_score]
                      updated == model_update(self2, t)
                  IN  IF ~updated.ret
                      THEN [ self |-> IF model_is_winner(updated.self)
                                      THEN [updated.self EXCEPT !.captured_image = TRUE]
                                      ELSE updated.self,
                             ret |-> TRUE ]
                      ELSE [self |-> updated.self, ret |-> TRUE]
             ELSE [self |-> self1, ret |-> TRUE]

\* ShapeSEController.render: what it draws on the screen
controller_render(self, camera) ==
    IF ~camera THEN {}
    ELSE {"camera_frame"}
           \cup ( IF self.game_started
                  THEN {"game_elements"} \cup (IF self.game_over THEN {"game_over"} ELSE {})
                  ELSE {"start_message"} )

NovoKeys == {"", "q", "SPACE"}

NovoInit ==
    /\ game = NovoInitModel
    /\ vision = VisionInit("core")
    /\ shape_mask = {}
    /\ now = StartTime
    /\ snapshots = 0
    /\ step = NoStep

\* time passes between two calls
NovoTick ==
    /\ step.op # "stopped"
    /\ now + NovoStep <= StartTime + NovoMaxTime
    /\ now' = now + NovoStep
    /\ UNCHANGED <<game, vision, shape_mask, snapshots, step>>

\* main: controller.update(); the loop breaks when it returns False
NovoUpdate(key, camera) ==
    /\ step.op \in {"init", "render"}
    /\ \E r \in {controller_update(game, key, camera, now)} :
           /\ game' = r.self
           /\ step' = [NoStep EXCEPT !.op = IF r.ret THEN "update" ELSE "stopped",
                                     !.key = key, !.camera = camera]
    /\ UNCHANGED <<vision, shape_mask, now, snapshots>>

\* main: controller.render()
NovoRender(camera) ==
    /\ step.op = "update"
    /\ step' = [NoStep EXCEPT !.op = "render", !.camera = camera,
                              !.screen = controller_render(game, camera)]
    /\ UNCHANGED <<game, vision, shape_mask, now, snapshots>>

NovoNext ==
    \/ NovoTick
    \/ \E key \in NovoKeys, camera \in BOOLEAN : NovoUpdate(key, camera)
    \/ \E camera \in BOOLEAN : NovoRender(camera)

NovoSpec == NovoInit /\ [][NovoNext]_vars

\* ------------------------------------------------------- properties
\* of the frame a step scored: overlap / total_shape * 100 >= threshold
coverage_reaches(s, threshold) ==
    s.total_shape > 0 /\ 100 * s.overlap >= threshold * s.total_shape

\* of the frame a step scored: (body_area - overlap) / total_shape * 100 < ceiling
excess_below(s, ceiling) ==
    s.total_shape > 0 /\ 100 * (Cardinality(s.body_mask_bin) - s.overlap) < ceiling * s.total_shape

\* the values the win test of the game reads pass it, whatever self.victory is
win_condition(self, vision_self) ==
    IF self.id = "core"
    THEN /\ Le(R(self.threshold), getattr(vision_self, "cobertura_interna", R(0)))
         /\ Lt(getattr(vision_self, "excesso_percentual", R(0)), R(ExcessCeiling))
    ELSE Le(R(self.threshold), self.current_percentage)

\* C1: save_snapshot runs on a step exactly when that step takes victory from
\* false to true: once on the frame that wins, never on a later frame while
\* victory stays true, never on any other step.
C1_SnapshotOncePerWin ==
    [][snapshots' = snapshots + (IF ~game.victory /\ game'.victory THEN 1 ELSE 0)]_vars

\* a frame that passes the win test is processed while victory is already
\* true, and the one snapshot of the win is still the only one
C1_Witness ==
    /\ step.op = "process_frame"
    /\ step.was_victory
    /\ game.victory
    /\ win_condition(game, vision)
    /\ step.saved = 0
    /\ snapshots = 1

\* C2: in the src/core pair, a frame processed while victory is false whose
\* coverage overlap / total_shape * 100 is >= threshold and whose excess is
\* below 50 leaves victory true.
C2_CorePairWins ==
    ( /\ step.op = "process_frame"
      /\ game.id = "core"
      /\ vision.id = "core"
      /\ ~step.was_victory
      /\ coverage_reaches(step, game.threshold)
      /\ excess_below(step, ExcessCeiling) )
    => game.victory

\* C3 as stated: victory goes from false to true only on a processed frame
\* whose coverage is >= threshold and whose excess is below 50.
C3_WinsOnlyWithinCeiling ==
    (step.op = "process_frame" /\ ~step.was_victory /\ game.victory)
    => coverage_reaches(step, game.threshold) /\ excess_below(step, ExcessCeiling)

\* C3: victory goes from false to true only on a processed frame; in
\* src/core/game.py only when the stored cobertura_interna is >= threshold and
\* the stored excess is below 50, in src/shape_se/core/game.py only when the
\* boosted fill percentage is >= threshold.
C3_WinsOnlyOnTestedFrame ==
    [][ (~game.victory /\ game'.victory)
        => /\ step'.op = "process_frame"
           /\ IF game.id = "core"
              THEN /\ "cobertura_interna" \in vision'.attrs
                   /\ vision'.cobertura_interna = Rat(100 * step'.overlap, step'.total_shape)
                   /\ coverage_reaches(step', game.threshold)
                   /\ excess_below(step', ExcessCeiling)
              ELSE Le(R(game.threshold), step'.ret) ]_vars

\* src/core/game.py wins on a frame whose body spills outside the shape
C3_Witness ==
    /\ step.op = "process_frame"
    /\ ~step.was_victory
    /\ game.victory
    /\ game.id = "core"
    /\ Lt(R(0), vision.excesso_percentual)

\* C4 as stated: on every step, victory stays true until more than the
\* cooldown has elapsed since victory_time.
C4_WonUntilCooldown ==
    [][ (game.victory /\ ~game'.victory) => now' - game.victory_time > cooldown(game) ]_vars

\* C4: victory stays true on every processed frame, skipped frame, clock step
\* and key event other than SPACE until more than the cooldown has elapsed
\* since victory_time; in src/core/game.py a SPACE event clears it at once.
C4_WonUntilCooldownOrSpace ==
    [][ (game.victory /\ ~game'.victory)
        => \/ step'.op = "process_frame" /\ now' - game.victory_time > cooldown(game)
           \/ game.id = "core" /\ step'.op = "handle_events" /\ step'.key = "SPACE" ]_vars

\* a frame that fails the win test is processed exactly cooldown seconds after
\* the win, and victory is still true
C4_Witness ==
    /\ step.op = "process_frame"
    /\ step.was_victory
    /\ game.victory
    /\ ~win_condition(game, vision)
    /\ now - game.victory_time = cooldown(game)

\* C5: while the loop keeps running, every victory ends, and a frame processed
\* when more than the cooldown has elapsed since victory_time leaves victory
\* false.
C5_WonEnds ==
    /\ game.victory ~> (~game.victory \/ ~Running)
    /\ [][ ( /\ game.victory
             /\ step'.op = "process_frame"
             /\ now' - game.victory_time > cooldown(game) )
           => ~game'.victory ]_vars

\* the cooldown has run out and the frame processed next has cleared victory
C5_Witness ==
    /\ step.op = "process_frame"
    /\ step.was_victory
    /\ ~game.victory
    /\ game.running
    /\ now - game.victory_time > cooldown(game)

\* x is a number of [0, 100]
in_percent_range(x) == IsRat(x) /\ Le(R(0), x) /\ Le(x, R(100))

\* the VisionProcessor holds the attribute name and its value is v
stores(vision_self, name, v) == name \in vision_self.attrs /\ vision_self[name] = v

\* the pixels of the dilated body mask that lie outside the shape
outside_shape(s) == Cardinality(s.body_mask_bin) - s.overlap

\* C6: after calculate_fill_percentage, the returned fill percentage, the
\* stored cobertura_interna and the stored excesso_percentual lie in [0, 100];
\* src/core stores the excess, src/shape-se the excess and the coverage.
C6_PercentagesInRange ==
    step.op = "calculate_fill_percentage"
    => /\ in_percent_range(step.ret)
       /\ vision.id \in {"core", "shape-se"} => "excesso_percentual" \in vision.attrs
       /\ vision.id = "shape-se" => "cobertura_interna" \in vision.attrs
       /\ "excesso_percentual" \in vision.attrs => in_percent_range(vision.excesso_percentual)
       /\ "cobertura_interna" \in vision.attrs => in_percent_range(vision.cobertura_interna)

\* the body spills outside the shape by more than the area of the shape, and
\* the stored excess is the clamp
C6_Witness ==
    /\ step.op = "calculate_fill_percentage"
    /\ vision.id = "shape-se"
    /\ step.overlap > 0
    /\ outside_shape(step) > step.total_shape
    /\ stores(vision, "excesso_percentual", R(100))
    /\ stores(vision, "cobertura_interna", R(100))

\* C7 as stated: a body mask equal to a non-empty target mask gives overlap
\* equal to the target area and a stored excess of 0.
C7_EqualMasksNoExcess ==
    ( /\ step.op = "calculate_fill_percentage"
      /\ step.body_mask = step.shape_mask
      /\ step.shape_mask # {}
      /\ "excesso_percentual" \in vision.attrs )
    => step.overlap = step.total_shape /\ vision.excesso_percentual = R(0)

\* C7: a body mask equal to a non-empty target mask gives overlap equal to the
\* target area; the stored excess is min(100, (dilated body area - target
\* area) / target area * 100), which is 0 exactly when the dilation inside
\* calculate_fill_percentage adds no pixel outside the target.
C7_EqualMasksCoverTarget ==
    ( /\ step.op = "calculate_fill_percentage"
      /\ step.body_mask = step.shape_mask
      /\ step.shape_mask # {} )
    => /\ step.overlap = step.total_shape
       /\ "excesso_percentual" \in vision.attrs
          => /\ vision.excesso_percentual
                  = Min(R(100), Rat(100 * outside_shape(step), step.total_shape))
             /\ vision.excesso_percentual = R(0) <=> step.body_mask_bin = step.shape_mask

\* equal masks whose dilation spills outside the target: the excess is not 0
C7_Witness ==
    /\ step.op = "calculate_fill_percentage"
    /\ step.body_mask = step.shape_mask
    /\ step.shape_mask # {}
    /\ step.overlap = step.total_shape
    /\ "excesso_percentual" \in vision.attrs
    /\ Lt(R(0), vision.excesso_percentual)

\* C8: an all-false body mask gives a returned fill percentage of 0, an
\* overlap of 0, and stored excess and coverage of 0, whatever the target is.
C8_EmptyBodyScoresZero ==
    (step.op = "calculate_fill_percentage" /\ step.body_mask = {})
    => /\ step.ret = R(0)
       /\ step.overlap = 0
       /\ "excesso_percentual" \in vision.attrs => vision.excesso_percentual = R(0)
       /\ "cobertura_interna" \in vision.attrs => vision.cobertura_interna = R(0)

\* an all-false body mask scored against a target that reaches the border
C8_Witness ==
    /\ step.op = "calculate_fill_percentage"
    /\ step.body_mask = {}
    /\ step.shape_mask = Pixels
    /\ stores(vision, "cobertura_interna", R(0))

\* C9: calculate_fill_percentage never divides by zero, and with an all-false
\* target mask it returns 0 and stores excess 0 and coverage 0, whatever the
\* body mask is.
C9_EmptyTargetScoresZero ==
    step.op = "calculate_fill_percentage"
    => /\ \A q \in step.divisions : IsRat(q)
       /\ step.shape_mask = {}
          => /\ step.ret = R(0)
             /\ vision.id \in {"core", "shape-se"} => stores(vision, "excesso_percentual", R(0))
             /\ vision.id = "shape-se" => stores(vision, "cobertura_interna", R(0))

\* an all-false target scored against a body mask that is not empty
C9_Witness ==
    /\ step.op = "calculate_fill_percentage"
    /\ step.shape_mask = {}
    /\ step.body_mask_bin # {}
    /\ stores(vision, "excesso_percentual", R(0))

\* C10: the learned-segmenter result is the bit-inverse of the classifier's
\* mask when more than 70% of that mask is foreground, and the classifier's
\* mask unchanged otherwise.
C10_InvertsMostlyForeground ==
    (step.op = "get_segmentation_mask" /\ vision.id \in {"core", "shape-se"})
    => step.mask = IF MostlyForeground(step.frame.category_mask)
                   THEN Invert(step.frame.category_mask)
                   ELSE step.frame.category_mask

\* C11: each of the first 10 calls of get_background_subtraction_mask on a
\* VisionProcessor, made directly or by get_segmentation_mask, returns the
\* all-false mask whatever the frame; no call before the 11th returns a
\* foreground pixel.
C11_WarmupReturnsEmpty ==
    step.calls <= WarmupFrames => step.mask2 = {}

\* the 11th call returns a foreground pixel
C11_Witness ==
    /\ step.op = "get_background_subtraction_mask"
    /\ step.calls = WarmupFrames + 1
    /\ step.mask2 # {}

\* C12: when the learned segmenter raises an error on a frame the loop hands
\* to process_frame, get_segmentation_mask still returns a mask, the one the
\* background-subtraction sub-mask gives with an all-false learned sub-mask,
\* and the loop of run is still turning afterwards.
C12_SegmenterErrorSurvived ==
    [][ step'.frame.raises /\ step'.op \in {"process_frame", "uncaught"}
        => /\ step'.op = "process_frame"
           /\ step'.body_mask =
                 resize(dash_combine({}, dash_get_background_subtraction_mask(
                                             vision, step'.frame).ret))
           /\ Running' ]_vars

C14_TimestampSetIffRecentlyWon ==
    [][ /\ game'.victory => game'.victory_time # 0
        /\ snapshots' = 0 => game'.victory_time = 0
        /\ ~game.victory /\ ~game'.victory /\ now' - now > cooldown(game)
              => game'.victory_time = 0 ]_vars

\* C15: for a non-empty target mask, the excess that calculate_fill_percentage
\* of src/core and of src/shape-se stores is
\* min(100, (body area - overlap) / target area * 100), the areas counted on
\* the refined body mask; counting the body pixels outside the target and
\* subtracting the overlap from the body area give the same number.
C15_StoredExcess ==
    step.op = "calculate_fill_percentage" /\ vision.id \in {"core", "shape-se"}
        /\ step.total_shape > 0
    => /\ stores(vision, "excesso_percentual",
                 Min(R(100), Rat(100 * outside_shape(step), step.total_shape)))
       /\ Cardinality(step.body_mask_bin \ step.shape_mask) = outside_shape(step)

\* src/core stores an excess strictly between 0 and 100 for a body that
\* overlaps the target
C15_Witness ==
    /\ step.op = "calculate_fill_percentage"
    /\ vision.id = "core"
    /\ step.overlap > 0
    /\ outside_shape(step) > 0
    /\ outside_shape(step) < step.total_shape
    /\ stores(vision, "excesso_percentual",
              Rat(100 * outside_shape(step), step.total_shape))

\* C16 as stated: for a non-empty target mask the returned fill percentage is
\* min(100, boost * overlap / target area * 100), the boost being 1.25 in
\* src/core, 1.5 in src/shape-se and 1.1 in src/shape_se, with no other term.
C16_BoostedCoverageOnly ==
    step.op = "calculate_fill_percentage" /\ step.total_shape > 0
    => step.ret =
         Min(R(100),
             Mul(CASE vision.id = "core" -> Rat(5, 4)
                   [] vision.id = "shape-se" -> Rat(3, 2)
                   [] vision.id = "shape_se" -> Rat(11, 10),
                 Rat(100 * step.overlap, step.total_shape)))

\* C16 amended: src/core and src/shape_se return the boosted coverage clamped
\* to 100; src/shape-se first multiplies the coverage by
\* 1 - excess / 400, the excess being the clamped percentage it stores.
C16_BoostedCoverageLessExcess ==
    step.op = "calculate_fill_percentage" /\ step.total_shape > 0
    => LET coverage == Rat(100 * step.overlap, step.total_shape)
           excess == Min(R(100), Rat(100 * outside_shape(step), step.total_shape))
       IN  step.ret =
             CASE vision.id = "core" -> Min(R(100), Mul(Rat(5, 4), coverage))
               [] vision.id = "shape-se" ->
                     Min(R(100), Mul(Rat(3, 2),
                                     Mul(coverage, Sub(R(1), Div(excess, R(400))))))
               [] vision.id = "shape_se" -> Min(R(100), Mul(Rat(11, 10), coverage))

\* src/shape-se returns less than the boosted coverage for a body that
\* spills outside the target
C16_Witness ==
    /\ step.op = "calculate_fill_percentage"
    /\ vision.id = "shape-se"
    /\ step.overlap > 0
    /\ outside_shape(step) > 0
    /\ Lt(step.ret, Min(R(100), Mul(Rat(3, 2), Rat(100 * step.overlap, step.total_shape))))

\* C17: every pixel that is foreground in the learned-segmenter sub-mask
\* (after the inversion heuristic) or in the background-subtraction sub-mask
\* is foreground in the mask get_segmentation_mask returns, and when both
\* sub-masks are all-false so is the returned mask.
C17_SubMasksIncluded ==
    step.op = "get_segmentation_mask"
    => /\ step.mask \cup step.mask2 \subseteq step.body_mask
       /\ step.mask = {} /\ step.mask2 = {} => step.body_mask = {}

\* after the warm-up each sub-mask has a pixel the other lacks, and the
\* returned mask is not the whole image
C17_Witness ==
    /\ step.op = "get_segmentation_mask"
    /\ step.calls > WarmupFrames
    /\ step.mask \ step.mask2 # {}
    /\ step.mask2 \ step.mask # {}
    /\ step.body_mask # Pixels

\* C18 as stated: victory and victory_time change only on a step of
\* process_frame; key events, the menu, a missing frame and the clock leave
\* both as they were.
C18_OnlyProcessFrameWrites ==
    [][ game'.victory # game.victory \/ game'.victory_time # game.victory_time
        => step'.op = "process_frame" ]_vars

\* C18 amended: victory_time changes only on a step of process_frame; victory
\* changes only there and, in src/core/game.py, on a SPACE event received
\* while victory is true, which sets it false and leaves victory_time alone.
C18_ProcessFrameOrSpaceWrites ==
    [][ game'.victory # game.victory \/ game'.victory_time # game.victory_time
        => \/ step'.op = "process_frame"
           \/ /\ game.id = "core"
              /\ step'.op = "handle_events"
              /\ step'.key = "SPACE"
              /\ game.victory
              /\ ~game'.victory
              /\ game'.victory_time = game.victory_time ]_vars

\* SPACE has just cleared a win before its cooldown was over: the game is
\* back in the menu and victory_time still holds the time of the win
C18_Witness ==
    /\ step.op = "handle_events"
    /\ step.key = "SPACE"
    /\ game.in_menu
    /\ ~game.victory
    /\ game.victory_time # 0
    /\ now - game.victory_time <= cooldown(game)

\* the attributes calculate_fill_percentage assigns
ScoreAttrs ==
    {"excesso_percentual", "cobertura_interna", "overlap_area", "total_shape_area",
     "body_mask_area"}

\* C19: whatever frames were processed before and whatever the win state,
\* the percentage calculate_fill_percentage returns and the values it leaves
\* stored are those a freshly constructed VisionProcessor of the same build
\* gives for the same (body mask, target mask) pair.
C19_ScoreDependsOnPairOnly ==
    step.op = "process_frame"
    => LET fresh == calculate_fill_percentage(VisionInit(vision.id), step.body_mask,
                                              step.shape_mask)
       IN  /\ step.ret = fresh.ret
           /\ \A name \in ScoreAttrs :
                 /\ name \in vision.attrs <=> name \in fresh.self.attrs
                 /\ name \in vision.attrs => vision[name] = fresh.self[name]

\* a frame is scored while the win of an earlier frame is still shown, and
\* its result, below 100, replaces the stored values of the earlier calls
C19_Witness ==
    /\ step.op = "process_frame"
    /\ step.was_victory
    /\ snapshots = 1
    /\ Lt(step.ret, R(100))
    /\ "overlap_area" \in vision.attrs

\* C20: once load_images has built shape_mask, no step of the running game
\* (a processed frame with its scoring and rendering, a missing frame, the
\* menu, a key event, the clock) changes a pixel of it.
C20_ShapeMaskNeverChanges ==
    [][shape_mask' = shape_mask]_vars

\* a frame whose refined body leaves part of the shape uncovered has been
\* scored, and the shape mask is the one the frame was scored against
C20_Witness ==
    /\ step.op = "process_frame"
    /\ step.overlap > 0
    /\ step.shape_mask \ step.body_mask_bin # {}
    /\ shape_mask = step.shape_mask

\* C21: a call of get_segmentation_mask writes the background model exactly
\* once, also when the learned segmenter raises: the first call seeds it with
\* the frame, calls 2 to 10 blend the frame in with factor 0.5, later calls
\* with factor 0.01; and after the warm-up the sub-mask is the refined
\* difference of the frame from the model as it was before that write.
C21_BackgroundUpdatedOncePerCall ==
    step.op = "get_segmentation_mask"
    => /\ Len(step.writes) = 1
       /\ step.writes[1] = ( IF step.calls = 1 THEN "seeded"
                             ELSE IF step.calls <= WarmupFrames THEN "averaged"
                             ELSE "adapted" )
       /\ vision.background = step.writes[1]
       /\ step.calls > WarmupFrames => step.mask2 = dash_refine_thresh(step.frame.motion)

\* after the warm-up the segmenter raises on a frame whose motion would
\* vanish against the updated model: the model is adapted and the sub-mask
\* still shows the motion
C21_Witness ==
    /\ step.op = "get_segmentation_mask"
    /\ step.calls > WarmupFrames
    /\ step.frame.raises
    /\ step.frame.faint # {}
    /\ step.mask2 # {}
    /\ vision.background = "adapted"

\* one pass of the scorer's stage of a build: dilate, then a single erode
refined_once(vision_id, body_mask) ==
    CASE vision_id = "core" ->
            erode(dilate(body_mask, CoreScoreKernel, CoreScoreDilations),
                  CoreScoreKernel, ScoreErosions)
      [] vision_id = "shape-se" ->
            erode(dilate(body_mask, DashScoreKernel, DashScoreDilations),
                  DashScoreKernel, ScoreErosions)
      [] vision_id = "shape_se" ->
            erode(dilate(body_mask, UnderScoreKernel, UnderScoreDilations),
                  UnderScoreKernel, ScoreErosions)

\* computed once for each mask that reaches a scorer
RefinedOnce ==
    [vision_id \in VisionIds, body_mask \in BodyMasks |->
        refined_once(vision_id, body_mask)] @@ <<>>

\* the masks get_segmentation_mask has before any dilate or close: the
\* classifier's mask (which src/core inverts after refining), or the union of
\* the two sub-masks
raw_masks(self, frame) ==
    CASE self.id = "core" -> {frame.category_mask, Invert(frame.category_mask)}
      [] self.id = "shape-se" ->
            {dash_get_mediapipe_mask(frame)
                \cup dash_get_background_subtraction_mask(self, frame).ret}
      [] self.id = "shape_se" -> {frame.category_mask}

C23_GameStoresScores ==
    step.op = "process_frame" /\ game.id = "core" /\ step.total_shape > 0
    => /\ game.cobertura_interna = Rat(100 * step.overlap, step.total_shape)
       /\ game.excesso_percentual =
             Min(R(100), Rat(100 * outside_shape(step), step.total_shape))

\* C24: in src/core/game.py the time a win is scored with (tempo_segundos)
\* and the time its victory screen shows (tempo_total) are the time the timer
\* has been running since it was last started or reset: time that passes
\* while the timer is paused with T is not counted.
C24_PausedTimeNotCounted ==
    step.op = "process_frame" /\ step.saved = 1
    => /\ step.tempo = step.counted
       /\ tempo_total(game) = step.counted

\* C29: in src/core/game.py the victory_score assigned by a win is an integer
\* from 0 to 10000, and it is 0 when the time counted for the round, by
\* tempo_segundos or by the running timer, is 60 seconds or more.
C29_VictoryScoreInRange ==
    step.op = "process_frame" /\ step.saved = 1
    => /\ game.victory_score \in 0 .. 10000
       /\ step.tempo >= 60 \/ step.counted >= 60 => game.victory_score = 0

\* a win scored with more than 60 seconds gets 0
C29_Witness ==
    /\ step.op = "process_frame"
    /\ step.saved = 1
    /\ step.tempo > 60
    /\ Le(R(game.threshold), game.cobertura_interna)
    /\ game.victory_score = 0

\* C25: in novo-game, from the update that ends the countdown (end_game) until
\* the player restarts with SPACE, every render that gets a camera frame
\* draws the game-over screen.
C25_GameOverShown ==
    step.op = "render" /\ step.camera /\ game.game_over
    => "game_over" \in step.screen

\* C26: in the Game of src/core/game.py, in_menu and victory are never both
\* true at the end of a step, whatever key events and frames came before.
C26_NoVictoryInMenu ==
    game.id = "core" => ~(game.in_menu /\ game.victory)

\* SPACE has sent a game that had won back to the menu before the cooldown
\* was over
C26_Witness ==
    /\ game.id = "core"
    /\ step.op = "handle_events"
    /\ step.key = "SPACE"
    /\ game.in_menu
    /\ snapshots >= 1
    /\ now - game.victory_time <= cooldown(game)

\* C27: refinement removes no foreground pixel: the body mask the scorer of
\* any build counts contains the body mask it was given, and the mask
\* get_segmentation_mask of src/shape-se returns after dilate and close
\* contains the sub-mask it started from.
C27_RefinementKeepsForeground ==
    /\ step.op = "calculate_fill_percentage" => step.body_mask \subseteq step.body_mask_bin
    /\ step.op = "get_segmentation_mask" /\ vision.id = "shape-se"
         => step.mask \subseteq step.body_mask

\* the scorer of src/shape_se has grown a body mask that is neither empty
\* nor the whole image, and all of it is still there
C27_Witness ==
    /\ step.op = "calculate_fill_percentage"
    /\ vision.id = "shape_se"
    /\ step.body_mask # {}
    /\ step.body_mask_bin # step.body_mask
    /\ step.body_mask_bin # Pixels
    /\ step.body_mask \subseteq step.body_mask_bin

\* (overlap / total_shape) * 100 if total_shape > 0 else 0
cobertura_interna(overlap, total_shape) ==
    if_positive(total_shape, Mul(Div(R(overlap), R(total_shape)), R(100)))

\* the coverage the scorer of a build computes for a body mask and a target
cobertura_of(vision_id, body_mask, mask) ==
    LET locals == score_of(vision_id, body_mask, mask).locals
    IN  cobertura_interna(locals.overlap, locals.total_shape)

\* C28: coverage is monotone in the body mask: after a scorer has run on a
\* body mask and a target, every body mask contained in that body mask gets,
\* for the same target, a coverage that is at most the coverage just
\* computed; in src/shape-se that coverage is the cobertura_interna stored.
C28_CoverageMonotone ==
    step.op = "calculate_fill_percentage" =>
        /\ \A A \in Masks :
               A \subseteq step.body_mask =>
                   Le(cobertura_of(vision.id, A, step.shape_mask),
                      cobertura_interna(step.overlap, step.total_shape))
        /\ vision.id = "shape-se" =>
               vision.cobertura_interna = cobertura_interna(step.overlap, step.total_shape)

\* a smaller body mask with a strictly smaller, non-zero coverage
C28_Witness ==
    /\ step.op = "calculate_fill_percentage"
    /\ vision.id = "shape-se"
    /\ \E A \in Masks :
           /\ A \subseteq step.body_mask
           /\ A # step.body_mask
           /\ Lt(R(0), cobertura_of(vision.id, A, step.shape_mask))
           /\ Lt(cobertura_of(vision.id, A, step.shape_mask), vision.cobertura_interna)
    /\ Lt(vision.cobertura_interna, R(100))

=============================================================================
